---------------------------- MODULE Spec2Model ----------------------------
(***************************************************************************)
(* The real-time relay of the collaborative whiteboard: the WebSocket      *)
(* server's connection registry (users), the per-connection room list,     *)
(* the message handler with its awaited store call followed by the         *)
(* fan-out, the Chat table, and the client's local shape list.             *)
(*                                                                         *)
(* One inbound message is handled by one invocation of the async           *)
(* ws.on('message') callback.  The callback runs up to its `await` of the  *)
(* store call, is suspended, and is resumed when the store call resolves.  *)
(* Other callbacks run in between, and the store executes concurrent       *)
(* statements in any order.  A client's socket.send and the relay's        *)
(* receipt of that message are one step (the transport keeps each          *)
(* connection's messages in order).                                        *)
(***************************************************************************)
EXTENDS Integers, Sequences, FiniteSets, TLC

(* ------------------------------ bounds -------------------------------- *)

\* draw / delete / clear messages accepted in one run of the full relay
MaxOps == 1
\* draw / delete / clear messages accepted in one run of the racing callbacks
MaxRaceOps == 2
\* draw messages accepted in one run of the relay with its clients
MaxDraws == 2
\* draw / delete / clear messages accepted in one run with repeated joins
MaxJoinOps == 1
\* draw messages accepted in one run with transports that go down
MaxStaleOps == 1
\* draw messages accepted in one run with connections that leave rooms
MaxLeaveOps == 2
\* messages accepted in one run with messages the callback cannot handle
MaxBadOps == 2
\* touch events that reach a client's canvas
MaxTouchEvents == 5
\* draws whose store calls succeed or fail, with the clients handling what
\* they receive
MaxFailOps == 2
\* draws whose identifiers are generated when they are drawn
MaxIds == 2
\* draw, delete and clear messages among every connection event, and one
\* message more when it is one that the callback does not handle
MaxStoreOps == 1
\* draw messages accepted one after the other in one run with connections
\* that join a room again and leave it
MaxRejoinOps == 2
\* draw messages accepted in one run with clients that load the history of
\* the room before they join it
MaxHistoryOps == 1
\* changes of the room info and of the user that reach a client's room page
MaxRenders == 4

Conns == {"c1", "c2"}
Rooms == {"1", "2"}
\* the room the draw / delete / clear messages of a run are addressed to
Addressed == {"1"}

\* the credential each client holds, and one that does not verify
Credential == [c \in Conns |-> IF c = "c1" THEN "tok_A" ELSE "tok_B"]
BadToken == "bad"
NoUser == "none"

VARIABLES
    users,          \* the registry: connections with an entry in `users`
    rooms,          \* user.rooms of each entry: the rooms it joined, in order
    userId,         \* identity resolved for the connection at connect time
    readyState,     \* ws.readyState of each connection's transport
    store,          \* the Chat table, rows in creation (id) order
    pending,        \* message callbacks suspended at their awaited store call
    recv,           \* what the relay has sent on each connection's transport
    applied,        \* how many of recv[c] the client's onmessage has handled
    existingShapes, \* each client's local shape list
    nOps,           \* number of draw/delete/clear messages dispatched so far
    applyOrder,     \* the order in which the store executed them
    bcast,          \* the fan-outs performed, in order, with their recipients
    failed,         \* the messages whose store call was rejected
    dropped,        \* the messages that did not parse or had no known type
    skipped,        \* listed users a fan-out found with a transport not open
    joined,         \* rooms each connection asked to join and has not left
    rejoined,       \* connections that asked to join a room they were in
    canvas,         \* a client's canvas: its listeners and its view state
    page,           \* a client's room page: its state, its effect, its timers
    loaded          \* the clients that have loaded the history of the room

vars == <<users, rooms, userId, readyState, store, pending, recv, applied,
          existingShapes, nOps, applyOrder, bcast, failed, dropped,
          skipped,
          joined, rejoined, canvas, page, loaded>>

relayVars == <<users, rooms, userId, readyState>>
clientVars == <<applied, existingShapes, canvas, page, loaded>>
logVars == <<nOps, applyOrder, bcast, failed, dropped, skipped>>
memberLog == <<joined, rejoined>>

(* ------------------------- pure helper functions ---------------------- *)

Range(s) == {s[i] : i \in 1..Len(s)}

\* Array.prototype.includes on user.rooms
Includes(arr, x) == \E i \in 1..Len(arr) : arr[i] = x

\* Array.prototype.filter
Filter(arr, Keep(_)) == SelectSeq(arr, Keep)

\* Number(parsedData.roomId): the decimal value of the room string
Number(r) == CHOOSE n \in 0..9 : ToString(n) = r

\* substring test of the store's `contains` filter
Contains(s, pat) ==
    \E i \in 1..(Len(s) - Len(pat) + 1) : SubSeq(s, i, i + Len(pat) - 1) = pat

\* JSON.stringify({ shape }) for a shape {id, type}
Stringify(shape) ==
    "{\"shape\":{\"id\":\"" \o shape.id \o "\",\"type\":\"" \o shape.type \o "\"}}"

\* the value of the first string member `key` in serialized text s
Member(s, key) ==
    LET k == "\"" \o key \o "\":\""
        from == CHOOSE i \in 1..Len(s) :
                    /\ SubSeq(s, i, i + Len(k) - 1) = k
                    /\ \A j \in 1..(i - 1) : SubSeq(s, j, j + Len(k) - 1) # k
        first == from + Len(k)
        last == CHOOSE e \in first..Len(s) :
                    /\ SubSeq(s, e, e) = "\""
                    /\ \A j \in first..(e - 1) : SubSeq(s, j, j) # "\""
    IN SubSeq(s, first, last - 1)

\* JSON.parse(message.message).shape
ParseShape(s) == [id |-> Member(s, "id"), type |-> Member(s, "type")]

\* String.prototype.substr(start, length), positions counted from 0
substr(s, start, length) ==
    SubSeq(s, start + 1, IF start + length < Len(s) THEN start + length ELSE Len(s))

\* generateShapeId(): `shape_${Date.now()}_${Math.random().toString(36).substr(2, 9)}`
\* for the clock reading `now` and the base-36 text `random` of Math.random()
generateShapeId(now, random) ==
    "shape_" \o ToString(now) \o "_" \o substr(random, 2, 9)

\* the clock reading and the Math.random() text of each client's draws in the
\* runs of the relay: the same millisecond, and suffixes of which one is a
\* prefix of the other
DrawnAt == [c \in Conns |-> 1]
DrawnWith == [c \in Conns |-> IF c = "c1" THEN "0.a" ELSE "0.ab"]
ShapeIdOf(c) == generateShapeId(DrawnAt[c], DrawnWith[c])

\* the identifiers that are drawn and deleted in the runs of the relay
ShapeIds == {ShapeIdOf(c) : c \in Conns}

\* a row of the Chat table
Row(roomId, shapeId, author) ==
    [roomId |-> roomId,
     message |-> Stringify([id |-> shapeId, type |-> "circle"]),
     userId |-> author]

\* the Chat table outlives the relay process: what earlier runs may have left
InitialTable ==
    <<Row(1, ShapeIdOf("c1"), "user_A"), Row(2, ShapeIdOf("c1"), "user_B"),
      Row(2, ShapeIdOf("c2"), "user_B"), Row(1, ShapeIdOf("c1"), "user_A")>>

\* the readings of Date.now() and the results of Math.random().toString(36)
\* that a client can see: two of the results agree in the characters that
\* substr(2, 9) keeps
Instants == {1, 2}
Randoms == {"0.a", "0.ab", "0.abcdefghijk", "0.abcdefghijz"}

(* ---------------- the canvas: view arithmetic and handlers ------------ *)

\* the numbers of the view state are rationals <<numerator, denominator>>
\* in lowest terms with a positive denominator
RECURSIVE GCD(_, _)
GCD(a, b) == IF b = 0 THEN a ELSE GCD(b, a % b)

Abs(n) == IF n < 0 THEN 0 - n ELSE n

Rat(n, d) ==
    LET g == GCD(Abs(n), Abs(d))
        s == IF d < 0 THEN 0 - 1 ELSE 1
    IN <<(s * n) \div g, (s * d) \div g>>

RatOf(n) == <<n, 1>>
RatMul(a, b) == Rat(a[1] * b[1], a[2] * b[2])
RatDiv(a, b) == Rat(a[1] * b[2], a[2] * b[1])
RatSub(a, b) == Rat(a[1] * b[2] - b[1] * a[2], a[2] * b[2])
RatLess(a, b) == a[1] * b[2] < b[1] * a[2]
\* Math.max, Math.min
RatMax(a, b) == IF RatLess(a, b) THEN b ELSE a
RatMin(a, b) == IF RatLess(a, b) THEN a ELSE b

\* the limits of the zoom: Math.max(0.1, Math.min(5, ..))
MinScale == <<1, 10>>
MaxScale == <<5, 1>>

\* the positions (clientX, clientY) a finger can be at, and the most fingers
\* that are down together
Points == {<<0, 0>>, <<3, 4>>, <<6, 8>>, <<60, 80>>}
MaxFingers == 3

\* Math.sqrt of a perfect square
Sqrt(n) == CHOOSE r \in 0..n : r * r = n

\* Math.sqrt(Math.pow(x2 - x1, 2) + Math.pow(y2 - y1, 2))
Distance(t1, t2) ==
    Sqrt((t2[1] - t1[1]) * (t2[1] - t1[1]) + (t2[2] - t1[2]) * (t2[2] - t1[2]))

\* the canvas before initZoomAndPan() and before any event: no listeners, no
\* finger down, the fields at their initializers, the view at scale 1 with
\* no offset, no mouse handler called yet
NewCanvas ==
    [listeners |-> <<>>, touches |-> <<>>, events |-> 0,
     lastTouchDistance |-> 0, touchStartTime |-> 0, touchStartPos |-> <<0, 0>>,
     scale |-> RatOf(1), offsetX |-> RatOf(0), offsetY |-> RatOf(0),
     mouse |-> <<>>]

\* EventTarget.addEventListener: a listener that is already in the list for
\* that type is not added again
addEventListener(list, type, handler) ==
    IF Includes(list, <<type, handler>>) THEN list
    ELSE Append(list, <<type, handler>>)

\* EventTarget.removeEventListener
removeEventListener(list, type, handler) ==
    LET Other(l) == l # <<type, handler>> IN Filter(list, Other)

\* initZoomAndPan(), statement by statement
initZoomAndPan(list) ==
    LET l1 == addEventListener(list, "wheel", "wheelHandler")
        l2 == addEventListener(l1, "touchstart", "touchStartHandler")
        l3 == addEventListener(l2, "touchmove", "touchMoveHandler")
        l4 == removeEventListener(l3, "touchstart", "touchStartHandler")
        l5 == removeEventListener(l4, "touchmove", "touchMoveHandler")
        l6 == removeEventListener(l5, "touchend", "touchEndHandler")
    IN addEventListener(l6, "touchend", "touchEndHandler")

\* a call of one of the mouse handlers with a synthesized MouseEvent
MouseCall(handler, pos) == [handler |-> handler, x |-> pos[1], y |-> pos[2]]

\* touchStartHandler: one touch is a mouse down, two touches start a pinch
touchStartHandler(cv, touches, now) ==
    LET c1 == [cv EXCEPT !.touchStartTime = now]
    IN IF Len(touches) = 1
       THEN [c1 EXCEPT !.touchStartPos = touches[1],
                       !.mouse = Append(@, MouseCall("mouseDownHandler", touches[1]))]
       ELSE IF Len(touches) = 2
            THEN [c1 EXCEPT !.lastTouchDistance = Distance(touches[1], touches[2])]
            ELSE c1

\* a pinch that takes the product as the new scale, whatever its size
pinch_Unclamped(cv, touches) ==
    LET currentDistance == Distance(touches[1], touches[2])
        newScale == RatMul(cv.scale, Rat(currentDistance, cv.lastTouchDistance))
        c1 == IF cv.lastTouchDistance > 0 /\ newScale # cv.scale
              THEN [cv EXCEPT !.scale = newScale]
              ELSE cv
    IN [c1 EXCEPT !.lastTouchDistance = currentDistance]

\* the two-touch branch of touchMoveHandler: rescale about the midpoint of
\* the fingers, then remember their distance (the redraw changes no field)
pinch(cv, touches) ==
    LET currentDistance == Distance(touches[1], touches[2])
        scale == Rat(currentDistance, cv.lastTouchDistance)
        centerX == Rat(touches[1][1] + touches[2][1], 2)
        centerY == Rat(touches[1][2] + touches[2][2], 2)
        newScale == RatMax(MinScale, RatMin(MaxScale, RatMul(cv.scale, scale)))
        c1 == IF cv.lastTouchDistance > 0 /\ newScale # cv.scale
              THEN [cv EXCEPT
                      !.offsetX = RatSub(centerX,
                                    RatMul(RatSub(centerX, cv.offsetX),
                                           RatDiv(newScale, cv.scale))),
                      !.offsetY = RatSub(centerY,
                                    RatMul(RatSub(centerY, cv.offsetY),
                                           RatDiv(newScale, cv.scale))),
                      !.scale = newScale]
              ELSE cv
    IN [c1 EXCEPT !.lastTouchDistance = currentDistance]

\* touchMoveHandler: one touch is a mouse move, two touches are a pinch
touchMoveHandler(cv, touches) ==
    IF Len(touches) = 1
    THEN [cv EXCEPT !.mouse = Append(@, MouseCall("mouseMoveHandler", touches[1]))]
    ELSE IF Len(touches) = 2 THEN pinch(cv, touches) ELSE cv

\* a touchend handler that leaves the last finger distance as it is
touchEndHandler_KeepDistance(cv, touches) ==
    IF Len(touches) = 0
    THEN [cv EXCEPT !.mouse =
                      Append(@, MouseCall("mouseUpHandler", cv.touchStartPos))]
    ELSE cv

\* touchEndHandler: no touch left is a mouse up at the start position
touchEndHandler(cv, touches) ==
    LET c1 == IF Len(touches) = 0
              THEN [cv EXCEPT !.mouse =
                                Append(@, MouseCall("mouseUpHandler", cv.touchStartPos))]
              ELSE cv
    IN [c1 EXCEPT !.lastTouchDistance = 0]

\* the canvas after the browser has delivered an event of a type: the
\* handler runs if it is among the listeners of that type
Dispatch(cv, type, handler, result) ==
    IF Includes(cv.listeners, <<type, handler>>) THEN result ELSE cv

(* -------------- the room page: auto-join effect and timer ------------- *)

\* what roomInfo and user hold: nothing yet, or a value
RoomInfos == {"null", "room"}
AuthUsers == {"null", "user_A", "user_B"}

\* no timer to clear: the effect returned no cleanup
NoTimer == 0

\* the page at its first render: nothing fetched, not joining, and the
\* effect found no room info, so it set no timer
NewPage ==
    [mounted |-> TRUE, roomInfo |-> "null", user |-> "null",
     joining |-> FALSE, timers |-> {}, timer |-> NoTimer, nextTimer |-> 1,
     renders |-> 0, fired |-> <<>>]

\* the dependency array of the effect
Deps(pg) == <<pg.roomInfo, pg.user, pg.joining>>

\* setTimeout: a new timer is pending, and `timer` holds its id
setTimeout(pg) ==
    [pg EXCEPT !.timers = @ \cup {pg.nextTimer}, !.timer = pg.nextTimer,
               !.nextTimer = @ + 1]

\* clearTimeout: the timer is no longer pending; nothing if it has fired
clearTimeout(pg, t) == [pg EXCEPT !.timers = @ \ {t}]

\* a cleanup that leaves the timer pending
cleanup_KeepTimer(pg) == pg

\* the function the effect returned, if it returned one
cleanup(pg) == IF pg.timer # NoTimer THEN clearTimeout(pg, pg.timer) ELSE pg

\* the body of the effect
effect(pg) ==
    IF pg.roomInfo # "null" /\ pg.user # "null" /\ ~pg.joining
    THEN setTimeout(pg)
    ELSE [pg EXCEPT !.timer = NoTimer]

\* an effect that sets no timer
useEffect_NoTimer(old, new) ==
    IF Deps(new) # Deps(old) THEN [cleanup(new) EXCEPT !.timer = NoTimer]
    ELSE new

\* useEffect after a render: when a dependency changed, the cleanup of the
\* last run, then the body again
useEffect(old, new) ==
    IF Deps(new) # Deps(old) THEN effect(cleanup(new)) ELSE new

\* setJoining: the state changes and the page renders again
setJoining(pg, v) == useEffect(pg, [pg EXCEPT !.joining = v])

(* ------------------------------- Init --------------------------------- *)

Init ==
    /\ users = {}
    /\ rooms = [c \in Conns |-> <<>>]
    /\ userId = [c \in Conns |-> NoUser]
    /\ readyState = [c \in Conns |-> "CONNECTING"]
    /\ store = InitialTable
    /\ pending = {}
    /\ recv = [c \in Conns |-> <<>>]
    /\ applied = [c \in Conns |-> 0]
    /\ existingShapes = [c \in Conns |-> <<>>]
    /\ nOps = 0
    /\ applyOrder = <<>>
    /\ bcast = <<>>
    /\ failed = {}
    /\ dropped = {}
    /\ skipped = {}
    /\ joined = [c \in Conns |-> {}]
    /\ rejoined = {}
    /\ canvas = NewCanvas
    /\ page = NewPage
    /\ loaded = {}


(* ------------------------ connection registry ------------------------- *)

\* jwt verification of the connect-time credential: the identity or none
verifyToken(token) ==
    CASE token = "tok_A" -> "user_A"
      [] token = "tok_B" -> "user_B"
      [] OTHER -> NoUser

\* a connection handler that registers the entry before it validates
Connect_RegisterAnyway(c, token) ==
    /\ readyState[c] = "CONNECTING"
    /\ users' = users \cup {c}
    /\ userId' = [userId EXCEPT ![c] = verifyToken(token)]
    /\ readyState' = [readyState EXCEPT ![c] =
                         IF verifyToken(token) = NoUser THEN "CLOSED" ELSE "OPEN"]
    /\ UNCHANGED <<rooms, store, pending, recv, clientVars, logVars, memberLog>>

\* wss.on('connection'): validate the credential once; register or close
Connect(c, token) ==
    /\ readyState[c] = "CONNECTING"
    /\ IF verifyToken(token) = NoUser
       THEN /\ readyState' = [readyState EXCEPT ![c] = "CLOSED"]
            /\ UNCHANGED <<users, userId>>
       ELSE /\ readyState' = [readyState EXCEPT ![c] = "OPEN"]
            /\ users' = users \cup {c}
            /\ userId' = [userId EXCEPT ![c] = verifyToken(token)]
    /\ UNCHANGED <<rooms, store, pending, recv, clientVars, logVars, memberLog>>

\* the transport of a registered connection goes down (client leaves, network)
TransportClose(c) ==
    /\ readyState[c] = "OPEN"
    /\ readyState' = [readyState EXCEPT ![c] = "CLOSED"]
    /\ UNCHANGED <<users, rooms, userId, store, pending, recv, clientVars,
                   logVars, memberLog>>

\* a removal that splices at the index it looked up, found or not: for an
\* absent connection the index is -1 and the last entry goes
registryWithout_Splice(registry, c) ==
    IF c \in registry \/ registry = {}
    THEN registry \ {c}
    ELSE registry \ {CHOOSE last \in registry : TRUE}

\* the registry without the entry of connection c
registryWithout(registry, c) == registry \ {c}

\* a teardown that leaves the room list of the connection behind
roomsWithout_Keep(lists, c) == lists

\* the room lists once the entry of connection c, and its list with it, is gone
roomsWithout(lists, c) == [lists EXCEPT ![c] = <<>>]

\* unregister(connection): drop the registry entry and with it its rooms
unregister(c) ==
    /\ users' = registryWithout(users, c)
    /\ rooms' = roomsWithout(rooms, c)

\* ws.on('close'): teardown of a registered connection
OnClose(c) ==
    /\ c \in users
    /\ readyState[c] = "CLOSED"
    /\ unregister(c)
    /\ joined' = [joined EXCEPT ![c] = {}]
    /\ UNCHANGED <<userId, readyState, store, pending, recv, clientVars, logVars,
                   rejoined>>

(* ------------------------- room membership ---------------------------- *)

\* a join that keeps one room per connection
join_Replace(list, roomId) == <<roomId>>

\* a join that pushes the room without looking
join_Push(list, roomId) == Append(list, roomId)

\* join(connection, roomId): add the room unless already present
join(list, roomId) == IF Includes(list, roomId) THEN list ELSE Append(list, roomId)

\* a leave that filters the list and throws the result away
leave_Unassigned(list, roomId) == list

\* a leave whose filter keeps the wrong side
leave_KeepOnly(list, roomId) == LET Same(x) == x = roomId IN Filter(list, Same)

\* a leave that drops the room joined last, whichever was named
leave_Pop(list, roomId) ==
    IF list = <<>> THEN list ELSE SubSeq(list, 1, Len(list) - 1)

\* leave(connection, roomId): remove the room if present
leave(list, roomId) == LET Other(x) == x # roomId IN Filter(list, Other)

\* a message can only come from a registered connection with an open transport
CanSend(c) == c \in users /\ readyState[c] = "OPEN"

\* a join handler that answers the sender with an acknowledgement
JoinRoom_Ack(c, roomId) ==
    /\ CanSend(c)
    /\ rooms' = [rooms EXCEPT ![c] = join(rooms[c], roomId)]
    /\ joined' = [joined EXCEPT ![c] = @ \cup {roomId}]
    /\ recv' = [recv EXCEPT ![c] =
                  Append(@, [type |-> "joined", roomId |-> roomId, message |-> "",
                             shapeId |-> "", op |-> 0])]
    /\ UNCHANGED <<users, userId, readyState, store, pending, clientVars,
                   logVars>>

\* { type: "join_room", roomId }
JoinRoom(c, roomId) ==
    /\ CanSend(c)
    /\ rooms' = [rooms EXCEPT ![c] = join(rooms[c], roomId)]
    /\ joined' = [joined EXCEPT ![c] = @ \cup {roomId}]
    /\ UNCHANGED <<users, userId, readyState, store, pending, recv, clientVars,
                   logVars>>

\* { type: "leave_room", roomId }
LeaveRoom(c, roomId) ==
    /\ CanSend(c)
    /\ rooms' = [rooms EXCEPT ![c] = leave(rooms[c], roomId)]
    /\ joined' = [joined EXCEPT ![c] = @ \ {roomId}]
    /\ UNCHANGED <<users, userId, readyState, store, pending, recv, clientVars,
                   logVars, rejoined>>

(* --------------------- dispatch up to the `await` --------------------- *)

\* the callback reaches its awaited store call and is suspended there
Suspend(c, msg) ==
    /\ nOps' = nOps + 1
    /\ pending' = pending \cup
                    {[op |-> nOps + 1, ws |-> c, type |-> msg.type,
                      roomId |-> msg.roomId, message |-> msg.message,
                      shapeId |-> msg.shapeId, userId |-> userId[c],
                      phase |-> "awaiting"]}

\* an addShape that sends the shape and leaves the local list to the echo
addShape_SendOnly(c, roomId, shape) ==
    /\ CanSend(c)
    /\ Suspend(c, [type |-> "chat", roomId |-> roomId,
                   message |-> Stringify(shape), shapeId |-> ""])
    /\ UNCHANGED <<relayVars, store, recv, clientVars, applyOrder, bcast, failed,
                   dropped, skipped, memberLog>>

\* client addShape: push the shape on the local list, then send it as chat
addShape(c, roomId, shape) ==
    /\ CanSend(c)
    /\ existingShapes' = [existingShapes EXCEPT ![c] = Append(@, shape)]
    /\ Suspend(c, [type |-> "chat", roomId |-> roomId,
                   message |-> Stringify(shape), shapeId |-> ""])
    /\ UNCHANGED <<relayVars, store, recv, applied, applyOrder, bcast, failed,
                   dropped, skipped,
                   memberLog, canvas, page, loaded>>

\* client deleteShape: filter the shape out locally, then send delete_shape
deleteShape(c, roomId, shapeId) ==
    /\ CanSend(c)
    /\ existingShapes' =
          [existingShapes EXCEPT ![c] =
              LET Other(sh) == sh.id # shapeId IN Filter(@, Other)]
    /\ Suspend(c, [type |-> "delete_shape", roomId |-> roomId,
                   message |-> "", shapeId |-> shapeId])
    /\ UNCHANGED <<relayVars, store, recv, applied, applyOrder, bcast, failed,
                   dropped, skipped,
                   memberLog, canvas, page, loaded>>

\* client clear: send clear_canvas
clearCanvas(c, roomId) ==
    /\ CanSend(c)
    /\ Suspend(c, [type |-> "clear_canvas", roomId |-> roomId,
                   message |-> "", shapeId |-> ""])
    /\ UNCHANGED <<relayVars, store, recv, clientVars, applyOrder, bcast, failed,
                   dropped, skipped,
                   memberLog>>

(* ------------------- messages the callback cannot handle -------------- *)

\* the relay process exits: every transport it held goes down, and the
\* registry and the suspended callbacks are gone with it (a connection made
\* afterwards is one to a process started anew)
ProcessExit ==
    /\ users' = {}
    /\ rooms' = [c \in Conns |-> <<>>]
    /\ readyState' = [c \in Conns |->
                         IF readyState[c] = "OPEN" THEN "CLOSED" ELSE readyState[c]]
    /\ pending' = {}
    /\ joined' = [c \in Conns |-> {}]

\* the callback was invoked for a message that it does not handle
Drop(c, kind) ==
    /\ nOps' = nOps + 1
    /\ dropped' = dropped \cup {[op |-> nOps + 1, ws |-> c, kind |-> kind]}

\* a message whose type matches none of the `if` branches: the callback
\* parses it, takes no branch and returns
UnknownType(c) ==
    /\ CanSend(c)
    /\ Drop(c, "unknown_type")
    /\ UNCHANGED <<relayVars, store, pending, recv, clientVars, applyOrder,
                   bcast, failed, skipped, memberLog>>

\* a message that is not JSON: JSON.parse throws inside the async callback,
\* which has no try/catch, so the callback's promise rejects with nothing to
\* handle it.  The runtime either only reports such a rejection or exits the
\* process on it, depending on its version and flags.
ParseFailure(c) ==
    /\ CanSend(c)
    /\ Drop(c, "unparsable")
    /\ \/ UNCHANGED <<relayVars, pending, joined>>
       \/ ProcessExit /\ UNCHANGED userId
    /\ UNCHANGED <<store, recv, clientVars, applyOrder, bcast, failed, skipped,
                   rejoined>>

(* --------------------------- the Chat table --------------------------- *)

\* a create that replaces the rows of the room that hold the same payload
chatCreate_Upsert(table, p) ==
    LET Keep(row) == ~(row.roomId = Number(p.roomId) /\ row.message = p.message)
    IN Append(Filter(table, Keep),
              [roomId |-> Number(p.roomId), message |-> p.message,
               userId |-> p.userId])

\* a create that writes every row under one fixed author
chatCreate_FixedAuthor(table, p) ==
    Append(table, [roomId |-> Number(p.roomId), message |-> p.message,
                   userId |-> "user_A"])

\* a create that writes the row only when the sender is in the room
chatCreate_MembersOnly(table, p) ==
    IF Includes(rooms[p.ws], p.roomId)
    THEN Append(table, [roomId |-> Number(p.roomId), message |-> p.message,
                        userId |-> p.userId])
    ELSE table

\* prismaClient.chat.create({ data: { roomId, message, userId } })
chatCreate(table, p) ==
    Append(table, [roomId |-> Number(p.roomId), message |-> p.message,
                   userId |-> p.userId])

\* a delete by shape that forgets the room condition
chatDeleteManyByShape_AnyRoom(table, p) ==
    LET Keep(row) == ~Contains(row.message, "\"id\":\"" \o p.shapeId \o "\"")
    IN Filter(table, Keep)

\* a delete by shape whose condition is inverted
chatDeleteManyByShape_Inverted(table, p) ==
    LET Keep(row) == /\ row.roomId = Number(p.roomId)
                     /\ Contains(row.message, "\"id\":\"" \o p.shapeId \o "\"")
    IN Filter(table, Keep)

\* a delete by shape whose pattern stops before the closing quote
chatDeleteManyByShape_NoClosingQuote(table, p) ==
    LET Keep(row) == ~(/\ row.roomId = Number(p.roomId)
                       /\ Contains(row.message, "\"id\":\"" \o p.shapeId))
    IN Filter(table, Keep)

\* prismaClient.chat.deleteMany({ where: { roomId, message: { contains } } })
chatDeleteManyByShape(table, p) ==
    LET Keep(row) == ~(/\ row.roomId = Number(p.roomId)
                       /\ Contains(row.message, "\"id\":\"" \o p.shapeId \o "\""))
    IN Filter(table, Keep)

\* a clear that only removes the rows the sender wrote
chatDeleteManyByRoom_OwnRows(table, p) ==
    LET Keep(row) == ~(row.roomId = Number(p.roomId) /\ row.userId = p.userId)
    IN Filter(table, Keep)

\* prismaClient.chat.deleteMany({ where: { roomId } })
chatDeleteManyByRoom(table, p) ==
    LET Keep(row) == row.roomId # Number(p.roomId) IN Filter(table, Keep)

StoreEffect(table, p) ==
    CASE p.type = "chat" -> chatCreate(table, p)
      [] p.type = "delete_shape" -> chatDeleteManyByShape(table, p)
      [] p.type = "clear_canvas" -> chatDeleteManyByRoom(table, p)

\* the store executes the statement of a suspended callback; its promise
\* is fulfilled and the callback becomes ready to resume
StoreResolve(p) ==
    /\ p \in pending
    /\ p.phase = "awaiting"
    /\ store' = StoreEffect(store, p)
    /\ pending' = (pending \ {p}) \cup {[p EXCEPT !.phase = "resolved"]}
    /\ applyOrder' = Append(applyOrder, p.op)
    /\ UNCHANGED <<relayVars, recv, clientVars, nOps, bcast, failed, dropped,
                   skipped,
                   memberLog>>

\* the store call fails: the awaited promise rejects, nothing after the
\* `await` runs, and the callback has no catch that would send anything.
\* The rejection is left unhandled, which the runtime either only reports or
\* answers by exiting the process.
StoreReject(p) ==
    /\ p \in pending
    /\ p.phase = "awaiting"
    /\ failed' = failed \cup {[op |-> p.op, ws |-> p.ws]}
    /\ \/ pending' = pending \ {p} /\ UNCHANGED <<relayVars, joined>>
       \/ ProcessExit /\ UNCHANGED userId
    /\ UNCHANGED <<store, recv, clientVars, nOps, applyOrder, bcast, dropped,
                   skipped, rejoined>>

\* the most rows one listing returns
Take == 1000

\* GET /chats/:roomId: the rows of the room in creation order, up to Take
GetChats(table, roomId) ==
    LET Of(row) == row.roomId = Number(roomId)
        rows == SelectSeq(table, Of)
    IN IF Len(rows) <= Take THEN rows ELSE SubSeq(rows, 1, Take)

(* ------------------------------ fan-out ------------------------------- *)

\* a fan-out to every registered connection
usersInRoom_All(roomId) == users

\* users.filter(user => user.rooms.includes(parsedData.roomId))
usersInRoom(roomId) == {u \in users : Includes(rooms[u], roomId)}

\* the message relayed for a resumed callback
Outgoing(p) ==
    [type |-> p.type, roomId |-> p.roomId, message |-> p.message,
     shapeId |-> p.shapeId, op |-> p.op]

\* a fan-out that leaves the sender out
Broadcast_SkipSender(p) ==
    [c \in Conns |->
        IF c \in usersInRoom(p.roomId) /\ readyState[c] = "OPEN" /\ c # p.ws
        THEN Append(recv[c], Outgoing(p))
        ELSE recv[c]]

\* a fan-out whose test of the transport's state is inverted
Broadcast_InvertedCheck(p) ==
    [c \in Conns |->
        IF c \in usersInRoom(p.roomId) /\ readyState[c] # "OPEN"
        THEN Append(recv[c], Outgoing(p))
        ELSE recv[c]]

\* a fan-out that sends without looking at the transport's state
Broadcast_NoReadyCheck(p) ==
    [c \in Conns |->
        IF c \in usersInRoom(p.roomId)
        THEN Append(recv[c], Outgoing(p))
        ELSE recv[c]]

\* a fan-out that stops after the first user it sent to
Broadcast_FirstOnly(p) ==
    LET open == {c \in usersInRoom(p.roomId) : readyState[c] = "OPEN"}
    IN [c \in Conns |->
           IF open # {} /\ c = (CHOOSE first \in open : TRUE)
           THEN Append(recv[c], Outgoing(p))
           ELSE recv[c]]

\* usersInRoom.forEach(user => { if (readyState === OPEN) user.ws.send(..) })
Broadcast(p) ==
    [c \in Conns |->
        IF c \in usersInRoom(p.roomId) /\ readyState[c] = "OPEN"
        THEN Append(recv[c], Outgoing(p))
        ELSE recv[c]]

\* the callback resumes after its await: find the room's users and send
Fanout(p) ==
    /\ p \in pending
    /\ p.phase = "resolved"
    /\ recv' = Broadcast(p)
    /\ pending' = pending \ {p}
    /\ bcast' = Append(bcast,
                  [op |-> p.op, ws |-> p.ws, type |-> p.type,
                   roomId |-> p.roomId, message |-> p.message,
                   shapeId |-> p.shapeId,
                   targets |-> {c \in Conns : /\ p.roomId \in joined[c]
                                              /\ readyState[c] = "OPEN"}])
    /\ UNCHANGED <<relayVars, store, clientVars, nOps, applyOrder, failed, dropped,
                   memberLog>>

\* the resumed callback, not noting whom its fan-out passed over
Resume(p) == Fanout(p) /\ UNCHANGED skipped

\* the resumed callback, noting the listed users whose transport it found
\* not open
ResumeNoting(p) ==
    /\ Fanout(p)
    /\ skipped' = skipped \cup
                    {[op |-> p.op, ws |-> c] :
                        c \in {u \in usersInRoom(p.roomId) : readyState[u] # "OPEN"}}

(* ------------------------- client reception --------------------------- *)

\* a handler that keeps only the shape that arrived last
ApplyMessage_ReplaceList(list, m) ==
    IF m.type = "chat" THEN <<ParseShape(m.message)>> ELSE list

\* the body of socket.onmessage: a chat message appends its parsed shape
ApplyMessage(list, m) ==
    IF m.type = "chat" THEN Append(list, ParseShape(m.message)) ELSE list

\* socket.onmessage: handle the next message that arrived on the socket
onmessage(c) ==
    /\ readyState[c] = "OPEN"
    /\ applied[c] < Len(recv[c])
    /\ applied' = [applied EXCEPT ![c] = @ + 1]
    /\ existingShapes' =
          [existingShapes EXCEPT ![c] = ApplyMessage(@, recv[c][applied[c] + 1])]
    /\ UNCHANGED <<relayVars, store, pending, recv, logVars, memberLog, canvas, page, loaded>>

\* the client loads the existing drawings of the room: its list becomes the
\* shapes of the rows that the listing returns
LoadHistory(c, roomId) ==
    /\ c \notin loaded
    /\ roomId \notin joined[c]
    /\ loaded' = loaded \cup {c}
    /\ existingShapes' =
          [existingShapes EXCEPT ![c] =
              LET rows == GetChats(store, roomId)
              IN [k \in 1..Len(rows) |-> ParseShape(rows[k].message)]]
    /\ UNCHANGED <<relayVars, store, pending, recv, applied, logVars,
                   memberLog, canvas, page>>

(* ------------------------ the canvas of a client ---------------------- *)

\* every variable but the canvas
offCanvas == <<relayVars, store, pending, recv, applied, existingShapes,
               logVars, memberLog, page, loaded>>

\* the constructor's call of initZoomAndPan()
InitZoomAndPan ==
    /\ canvas' = [canvas EXCEPT !.listeners = initZoomAndPan(@)]
    /\ UNCHANGED offCanvas

\* a finger goes down on the canvas: touchstart with the touches now down
TouchStart(pt) ==
    /\ canvas.events < MaxTouchEvents
    /\ Len(canvas.touches) < MaxFingers
    /\ \E now \in Instants :
          LET cv == [canvas EXCEPT !.touches = Append(@, pt), !.events = @ + 1]
          IN canvas' = Dispatch(cv, "touchstart", "touchStartHandler",
                                touchStartHandler(cv, cv.touches, now))
    /\ UNCHANGED offCanvas

\* finger i moves: touchmove with the touches at their new positions
TouchMove(i, pt) ==
    /\ canvas.events < MaxTouchEvents
    /\ i \in 1..Len(canvas.touches)
    /\ pt # canvas.touches[i]
    /\ LET cv == [canvas EXCEPT !.touches[i] = pt, !.events = @ + 1]
       IN canvas' = Dispatch(cv, "touchmove", "touchMoveHandler",
                             touchMoveHandler(cv, cv.touches))
    /\ UNCHANGED offCanvas

\* finger i is lifted: touchend with the touches that stay down
TouchEnd(i) ==
    /\ canvas.events < MaxTouchEvents
    /\ i \in 1..Len(canvas.touches)
    /\ LET rest == [k \in 1..(Len(canvas.touches) - 1) |->
                      IF k < i THEN canvas.touches[k] ELSE canvas.touches[k + 1]]
           cv == [canvas EXCEPT !.touches = rest, !.events = @ + 1]
       IN canvas' = Dispatch(cv, "touchend", "touchEndHandler",
                             touchEndHandler(cv, cv.touches))
    /\ UNCHANGED offCanvas

\* the touches that one touchstart event can bring: one finger, or two that
\* come down together
Landings == {<<p>> : p \in Points} \cup {<<p, q>> : p, q \in Points}

\* touchStartHandler called with a touchstart event
OnTouchStart(land) ==
    /\ canvas.events < MaxTouchEvents
    /\ Len(canvas.touches) + Len(land) <= MaxFingers
    /\ \E now \in Instants :
          LET cv == [canvas EXCEPT !.touches = @ \o land, !.events = @ + 1]
          IN canvas' = touchStartHandler(cv, cv.touches, now)
    /\ UNCHANGED offCanvas

\* touchMoveHandler called with the touchmove event of finger i
OnTouchMove(i, pt) ==
    /\ canvas.events < MaxTouchEvents
    /\ i \in 1..Len(canvas.touches)
    /\ pt # canvas.touches[i]
    /\ LET cv == [canvas EXCEPT !.touches[i] = pt, !.events = @ + 1]
       IN canvas' = touchMoveHandler(cv, cv.touches)
    /\ UNCHANGED offCanvas

\* touchEndHandler called with the touchend event of finger i
OnTouchEnd(i) ==
    /\ canvas.events < MaxTouchEvents
    /\ i \in 1..Len(canvas.touches)
    /\ LET rest == [k \in 1..(Len(canvas.touches) - 1) |->
                      IF k < i THEN canvas.touches[k] ELSE canvas.touches[k + 1]]
           cv == [canvas EXCEPT !.touches = rest, !.events = @ + 1]
       IN canvas' = touchEndHandler(cv, cv.touches)
    /\ UNCHANGED offCanvas

(* ----------------------- the room page of a client -------------------- *)

\* every variable but the page
offPage == <<relayVars, store, pending, recv, applied, existingShapes,
             logVars, memberLog, canvas, loaded>>

\* the fetch of the room info settles, or the room info changes
SetRoomInfo(r) ==
    /\ page.mounted
    /\ page.renders < MaxRenders
    /\ r # page.roomInfo
    /\ page' = useEffect(page, [page EXCEPT !.roomInfo = r, !.renders = @ + 1])
    /\ UNCHANGED offPage

\* the authentication context provides a user, another one, or none
SetUser(u) ==
    /\ page.mounted
    /\ page.renders < MaxRenders
    /\ u # page.user
    /\ page' = useEffect(page, [page EXCEPT !.user = u, !.renders = @ + 1])
    /\ UNCHANGED offPage

\* joinRoom: the user presses the join button
joinRoom ==
    /\ page.mounted
    /\ page' = setJoining(page, TRUE)
    /\ UNCHANGED offPage

\* a pending timer fires: its callback sets joining; a state setter of a
\* page that is no longer mounted does nothing
TimerFire(t) ==
    /\ t \in page.timers
    /\ LET p1 == [page EXCEPT
                     !.timers = @ \ {t},
                     !.fired = Append(@, [timer |-> t,
                                          cleaned |-> \/ ~page.mounted
                                                      \/ t # page.timer,
                                          joining |-> page.joining])]
       IN page' = IF p1.mounted THEN setJoining(p1, TRUE) ELSE p1
    /\ UNCHANGED offPage

\* the page unmounts: the cleanup of the last run of the effect
Unmount ==
    /\ page.mounted
    /\ page' = [cleanup(page) EXCEPT !.mounted = FALSE, !.timer = NoTimer]
    /\ UNCHANGED offPage

(* --------------------------- specification ---------------------------- *)

\* a join_room message, not recording whether it repeats an earlier one
Join(c, r) == JoinRoom(c, r) /\ UNCHANGED rejoined

\* a join_room message, recording a connection that joins a room it is in
JoinAgain(c, r) ==
    /\ JoinRoom(c, r)
    /\ rejoined' = IF r \in joined[c] THEN rejoined \cup {c} ELSE rejoined

\* a draw of connection c
Draw(c) ==
    \E r \in Addressed :
        addShape(c, r, [id |-> ShapeIdOf(c), type |-> "circle"])

\* a draw of connection c whose shape gets its identifier from
\* generateShapeId() at that moment
DrawNew(c) ==
    \E now \in Instants, random \in Randoms, r \in Addressed :
        addShape(c, r, [id |-> generateShapeId(now, random), type |-> "circle"])

\* one draw, delete or clear message of connection c
Message(c) ==
    \/ Draw(c)
    \/ \E r \in Addressed, s \in ShapeIds : deleteShape(c, r, s)
    \/ \E r \in Addressed : clearCanvas(c, r)

\* the relay with every connection and membership event around its draw,
\* delete and clear messages, whose store calls succeed or fail
Next ==
    \/ \E c \in Conns : \E t \in {Credential[c], BadToken} : Connect(c, t)
    \/ \E c \in Conns : TransportClose(c)
    \/ \E c \in Conns : OnClose(c)
    \/ \E c \in Conns, r \in Rooms : Join(c, r)
    \/ \E c \in Conns, r \in Rooms : LeaveRoom(c, r)
    \/ \E c \in Conns : nOps < MaxOps /\ Message(c)
    \/ \E p \in pending : StoreResolve(p)
    \/ \E p \in pending : StoreReject(p)
    \/ \E p \in pending : Resume(p)

Spec == Init /\ [][Next]_vars

\* callbacks racing at their awaits in one room: connections that connect,
\* join that room and stay, and whose store calls succeed
NextRace ==
    \/ \E c \in Conns : Connect(c, Credential[c])
    \/ \E c \in Conns, r \in Addressed : Join(c, r)
    \/ \E c \in Conns : nOps < MaxRaceOps /\ Message(c)
    \/ \E p \in pending : StoreResolve(p)
    \/ \E p \in pending : Resume(p)

SpecRace == Init /\ [][NextRace]_vars

\* draws racing in one room, with the clients handling what they receive
NextClient ==
    \/ \E c \in Conns : Connect(c, Credential[c])
    \/ \E c \in Conns, r \in Addressed : Join(c, r)
    \/ \E c \in Conns : nOps < MaxDraws /\ Draw(c)
    \/ \E p \in pending : StoreResolve(p)
    \/ \E p \in pending : Resume(p)
    \/ \E c \in Conns : onmessage(c)

SpecClient == Init /\ [][NextClient]_vars

\* joins, repeated joins and leaves around the messages of a run
NextJoin ==
    \/ \E c \in Conns : Connect(c, Credential[c])
    \/ \E c \in Conns, r \in Rooms : JoinAgain(c, r)
    \/ \E c \in Conns, r \in Rooms : LeaveRoom(c, r)
    \/ \E c \in Conns : nOps < MaxJoinOps /\ Message(c)
    \/ \E p \in pending : StoreResolve(p)
    \/ \E p \in pending : Resume(p)

SpecJoin == Init /\ [][NextJoin]_vars

\* draws in one room while transports go down: the close event of a transport
\* that went down is emitted, and its handler runs, after finitely many steps
NextStale ==
    \/ \E c \in Conns : Connect(c, Credential[c])
    \/ \E c \in Conns, r \in Addressed : Join(c, r)
    \/ \E c \in Conns : TransportClose(c)
    \/ \E c \in Conns : OnClose(c)
    \/ \E c \in Conns : nOps < MaxStaleOps /\ Draw(c)
    \/ \E p \in pending : StoreResolve(p)
    \/ \E p \in pending : ResumeNoting(p)

SpecStale ==
    Init /\ [][NextStale]_vars /\ \A c \in Conns : WF_vars(OnClose(c))

\* draws in one room by connections that join and leave rooms meanwhile
NextLeave ==
    \/ \E c \in Conns : Connect(c, Credential[c])
    \/ \E c \in Conns, r \in Rooms : Join(c, r)
    \/ \E c \in Conns, r \in Rooms : LeaveRoom(c, r)
    \/ \E c \in Conns : nOps < MaxLeaveOps /\ Draw(c)
    \/ \E p \in pending : StoreResolve(p)
    \/ \E p \in pending : Resume(p)

SpecLeave == Init /\ [][NextLeave]_vars

\* draws in one room among messages that do not parse or have no known
\* type, and transports that go down
NextBad ==
    \/ \E c \in Conns : Connect(c, Credential[c])
    \/ \E c \in Conns, r \in Addressed : Join(c, r)
    \/ \E c \in Conns : TransportClose(c)
    \/ \E c \in Conns : OnClose(c)
    \/ \E c \in Conns : nOps < MaxBadOps /\ Draw(c)
    \/ \E c \in Conns : nOps < MaxBadOps /\ UnknownType(c)
    \/ \E c \in Conns : nOps < MaxBadOps /\ ParseFailure(c)
    \/ \E p \in pending : StoreResolve(p)
    \/ \E p \in pending : Resume(p)

SpecBad == Init /\ [][NextBad]_vars

\* draw, delete and clear messages among connects, joins, leaves, transports
\* that go down and messages that the callback does not handle
NextStore ==
    \/ \E c \in Conns : \E t \in {Credential[c], BadToken} : Connect(c, t)
    \/ \E c \in Conns, r \in Addressed : Join(c, r)
    \/ \E c \in Conns, r \in Addressed : LeaveRoom(c, r)
    \/ \E c \in Conns : TransportClose(c)
    \/ \E c \in Conns : OnClose(c)
    \/ \E c \in Conns : nOps < MaxStoreOps /\ Message(c)
    \/ \E c \in Conns : nOps <= MaxStoreOps /\ UnknownType(c)
    \/ \E c \in Conns : nOps <= MaxStoreOps /\ ParseFailure(c)
    \/ \E p \in pending : StoreResolve(p)
    \/ \E p \in pending : Resume(p)

SpecStore == Init /\ [][NextStore]_vars

\* clients that generate the identifiers of the shapes they draw
NextIds ==
    \/ \E c \in Conns : Connect(c, Credential[c])
    \/ \E c \in Conns : nOps < MaxIds /\ DrawNew(c)
    \/ \E p \in pending : StoreResolve(p)
    \/ \E p \in pending : Resume(p)

SpecIds == Init /\ [][NextIds]_vars

\* draws in one room whose store calls succeed or fail, with the clients
\* handling what they receive
NextFail ==
    \/ \E c \in Conns : Connect(c, Credential[c])
    \/ \E c \in Conns, r \in Addressed : Join(c, r)
    \/ \E c \in Conns : nOps < MaxFailOps /\ Draw(c)
    \/ \E p \in pending : StoreResolve(p)
    \/ \E p \in pending : StoreReject(p)
    \/ \E p \in pending : Resume(p)
    \/ \E c \in Conns : onmessage(c)

SpecFail == Init /\ [][NextFail]_vars

\* a client's canvas: its set-up and the touch events that reach it
NextCanvas ==
    \/ InitZoomAndPan
    \/ \E pt \in Points : TouchStart(pt)
    \/ \E i \in 1..MaxFingers, pt \in Points : TouchMove(i, pt)
    \/ \E i \in 1..MaxFingers : TouchEnd(i)

SpecCanvas == Init /\ [][NextCanvas]_vars

\* the three touch handlers, each called with the events of its type
NextTouch ==
    \/ \E land \in Landings : OnTouchStart(land)
    \/ \E i \in 1..MaxFingers, pt \in Points : OnTouchMove(i, pt)
    \/ \E i \in 1..MaxFingers : OnTouchEnd(i)

SpecTouch == Init /\ [][NextTouch]_vars

\* draws in the addressed room, each sent when the one before it has been
\* fanned out, by connections that join it, join it again and leave it, and
\* join and leave the other room
NextRejoin ==
    \/ \E c \in Conns : Connect(c, Credential[c])
    \/ \E c \in Conns, r \in Addressed : JoinAgain(c, r)
    \/ \E c \in Conns, r \in Rooms \ Addressed : Join(c, r)
    \/ \E c \in Conns, r \in Rooms : LeaveRoom(c, r)
    \/ \E c \in Conns : nOps < MaxRejoinOps /\ pending = {} /\ Draw(c)
    \/ \E p \in pending : StoreResolve(p)
    \/ \E p \in pending : Resume(p)

SpecRejoin == Init /\ [][NextRejoin]_vars

\* draws in one room by clients that load the history of the room and then
\* join it
NextHistory ==
    \/ \E c \in Conns : Connect(c, Credential[c])
    \/ \E c \in Conns, r \in Addressed : LoadHistory(c, r)
    \/ \E c \in loaded, r \in Addressed : Join(c, r)
    \/ \E c \in Conns : nOps < MaxHistoryOps /\ Draw(c)
    \/ \E p \in pending : StoreResolve(p)
    \/ \E p \in pending : Resume(p)
    \/ \E c \in Conns : onmessage(c)

SpecHistory == Init /\ [][NextHistory]_vars

\* a client's room page: what it is given, the join button, its timer
NextPage ==
    \/ \E r \in RoomInfos : SetRoomInfo(r)
    \/ \E u \in AuthUsers : SetUser(u)
    \/ joinRoom
    \/ \E t \in 1..MaxRenders : TimerFire(t)
    \/ Unmount

\* a pending timer fires in the end: the event loop runs its callback
SpecPage ==
    Init /\ [][NextPage]_vars /\ WF_vars(\E t \in 1..MaxRenders : TimerFire(t))

TypeOK ==
    /\ users \subseteq Conns
    /\ \A c \in Conns : Range(rooms[c]) \subseteq Rooms
    /\ nOps <= MaxOps + MaxRaceOps + MaxDraws + MaxJoinOps + MaxStaleOps
            + MaxBadOps + MaxLeaveOps + MaxStoreOps
            + MaxIds + MaxFailOps + MaxRejoinOps + MaxHistoryOps


(* ------------------------------ properties ---------------------------- *)

\* the listed users that the fan-out of message number op passed over
SkippedBy(op) == {c \in Conns : [op |-> op, ws |-> c] \in skipped}

\* positions of recv[c] that were sent for dispatched message number op
SentFor(c, op) == {k \in 1..Len(recv[c]) : recv[c][k].op = op}

C5_RoomIsolation ==
    [][\A c \in Conns :
          recv'[c] # recv[c] =>
              /\ Len(recv'[c]) = Len(recv[c]) + 1
              /\ recv'[c][Len(recv'[c])].roomId \in joined[c]]_vars

\* a message for room "1" reached a member while another open connection,
\* whose only membership is room "2", was sent nothing
C5_Witness ==
    \E c, d \in Conns :
        /\ joined[c] = {"2"}
        /\ readyState[c] = "OPEN"
        /\ recv[c] = <<>>
        /\ recv[d] # <<>>
        /\ \A i \in 1..Len(bcast) : bcast[i].roomId = "1" /\ d \in bcast[i].targets

C7_JoinIdempotent ==
    /\ \A c \in Conns : Cardinality(Range(rooms[c])) = Len(rooms[c])
    /\ \A c \in Conns : \A k1, k2 \in 1..Len(recv[c]) :
          recv[c][k1].op = recv[c][k2].op => k1 = k2
    /\ \A i \in 1..Len(bcast) : \A c \in bcast[i].targets \cap rejoined :
          Cardinality(SentFor(c, bcast[i].op)) = 1

\* a connection that joined the room twice was then sent a message for it
C7_Witness ==
    \E i \in 1..Len(bcast) : \E c \in rejoined :
        /\ c \in bcast[i].targets
        /\ SentFor(c, bcast[i].op) # {}

\* the shape identifier embedded in a row's payload
EmbeddedId(row) == ParseShape(row.message).id

\* row belongs to the room named by the room string r
InRoom(row, r) == ToString(row.roomId) = r

\* the step in which the store executes the statement of callback p
Executes(p) ==
    /\ p \in pending
    /\ p.phase = "awaiting"
    /\ applyOrder' = Append(applyOrder, p.op)

Pos(seq, x) == CHOOSE k \in 1..Len(seq) : seq[k] = x

\* C8: when the store call of a draw, delete or clear fails, nothing is
\* fanned out for it, an operation-failed notice goes to the originating
\* connection (while its transport is open) and to no other, and the failure
\* leaves the registry, the memberships and the transports as they were.
C8_StoreFailure ==
    /\ [](\A f \in failed :
            /\ \A c \in Conns \ {f.ws} : SentFor(c, f.op) = {}
            /\ \A k \in SentFor(f.ws, f.op) :
                  recv[f.ws][k].type \notin {"chat", "delete_shape", "clear_canvas"}
            /\ readyState[f.ws] = "OPEN" => SentFor(f.ws, f.op) # {})
    /\ [][failed' # failed => UNCHANGED <<users, rooms, readyState>>]_vars

\* C9: the store's execution of delete_shape for identifier S in room R
\* leaves no row of R whose embedded identifier is S and leaves the rows of
\* every other room as they were; the delete directive is fanned out only
\* after that, once to every member of R with an open transport, carrying
\* S and R.
C9_DeleteShape ==
    /\ [][\A p \in pending :
            (Executes(p) /\ p.type = "delete_shape") =>
                /\ \A k \in 1..Len(store') :
                      ~(InRoom(store'[k], p.roomId) /\ EmbeddedId(store'[k]) = p.shapeId)
                /\ LET Other(row) == ~InRoom(row, p.roomId)
                   IN SelectSeq(store', Other) = SelectSeq(store, Other)]_vars
    /\ [](\A i \in 1..Len(bcast) :
            bcast[i].type = "delete_shape" =>
                /\ \E j \in 1..Len(applyOrder) : applyOrder[j] = bcast[i].op
                /\ \A c \in bcast[i].targets :
                      /\ Cardinality(SentFor(c, bcast[i].op)) = 1
                      /\ \A k \in SentFor(c, bcast[i].op) :
                            /\ recv[c][k].type = "delete_shape"
                            /\ recv[c][k].shapeId = bcast[i].shapeId
                            /\ recv[c][k].roomId = bcast[i].roomId)

\* a delete_shape removed rows of its room, the other room's rows are still
\* there, and the directive reached a member
C9_Witness ==
    \E i \in 1..Len(bcast) :
        /\ bcast[i].type = "delete_shape"
        /\ bcast[i].targets # {}
        /\ Len(store) < Len(InitialTable)
        /\ \E k \in 1..Len(store) : ~InRoom(store[k], bcast[i].roomId)

C3_PerRoomSerial ==
    /\ \A i, j \in 1..Len(bcast) :
          (i < j /\ bcast[i].roomId = bcast[j].roomId) =>
              Pos(applyOrder, bcast[i].op) < Pos(applyOrder, bcast[j].op)
    /\ \A p, q \in pending :
          (p # q /\ p.roomId = q.roomId) =>
              ~(p.phase = "resolved" /\ q.phase = "resolved")

\* C4: the messages of one room reach every connection in the order in
\* which the dispatcher took the originating messages, hence in the same
\* relative order at any two connections.
C4_DeliveryOrder ==
    /\ \A c \in Conns : \A k1, k2 \in 1..Len(recv[c]) :
          (k1 < k2 /\ recv[c][k1].roomId = recv[c][k2].roomId) =>
              recv[c][k1].op < recv[c][k2].op
    /\ \A c, d \in Conns :
          \A k1, k2 \in 1..Len(recv[c]) : \A l1, l2 \in 1..Len(recv[d]) :
              (/\ recv[c][k1].op = recv[d][l1].op
               /\ recv[c][k2].op = recv[d][l2].op
               /\ recv[c][k1].roomId = recv[c][k2].roomId)
              => (k1 < k2 <=> l1 < l2)

\* the rows written during this run
NewRows == SubSeq(store, Len(InitialTable) + 1, Len(store))

\* C2: once every draw has been stored and fanned out and every client has
\* handled what it was sent, the local shape list of each connection that
\* was a member for all of them equals the rows written for the room,
\* replayed in creation order.
C2_Convergence ==
    (/\ pending = {}
     /\ Len(bcast) = nOps
     /\ \A c \in Conns : applied[c] = Len(recv[c]))
    => \A c \in Conns :
          (bcast # <<>> /\ \A i \in 1..Len(bcast) : c \in bcast[i].targets) =>
              existingShapes[c] =
                  [k \in 1..Len(NewRows) |-> ParseShape(NewRows[k].message)]

\* C11: the store's execution of clear_canvas for room R, whatever was drawn
\* before, leaves no row of R and leaves the rows of every other room as they
\* were; the clear directive is fanned out only after that, once to every
\* member of R with an open transport, the sender included.
C11_ClearCanvas ==
    /\ [][\A p \in pending :
            (Executes(p) /\ p.type = "clear_canvas") =>
                /\ \A k \in 1..Len(store') : ~InRoom(store'[k], p.roomId)
                /\ LET Other(row) == ~InRoom(row, p.roomId)
                   IN SelectSeq(store', Other) = SelectSeq(store, Other)]_vars
    /\ [](\A i \in 1..Len(bcast) :
            bcast[i].type = "clear_canvas" =>
                /\ \E j \in 1..Len(applyOrder) : applyOrder[j] = bcast[i].op
                /\ \A c \in bcast[i].targets :
                      /\ Cardinality(SentFor(c, bcast[i].op)) = 1
                      /\ \A k \in SentFor(c, bcast[i].op) :
                            /\ recv[c][k].type = "clear_canvas"
                            /\ recv[c][k].roomId = bcast[i].roomId)

\* a draw of this run was stored and fanned out, then a clear_canvas emptied
\* the room, kept the other room's rows and reached both members
C11_Witness ==
    \E i, j \in 1..Len(bcast) :
        /\ i < j
        /\ bcast[i].type = "chat"
        /\ bcast[j].type = "clear_canvas"
        /\ Pos(applyOrder, bcast[i].op) < Pos(applyOrder, bcast[j].op)
        /\ bcast[j].targets = Conns
        /\ \A c \in Conns : SentFor(c, bcast[j].op) # {}
        /\ \A k \in 1..Len(store) : ~InRoom(store[k], bcast[j].roomId)
        /\ store # <<>>

C13_StaleSkipped ==
    /\ [](\A i \in 1..Len(bcast) : \A c \in SkippedBy(bcast[i].op) :
            SentFor(c, bcast[i].op) = {})
    /\ \A c \in Conns :
          (\E i \in 1..Len(bcast) : c \in SkippedBy(bcast[i].op))
              ~> (c \notin users /\ \A r \in Rooms : c \notin usersInRoom(r)
                                 /\ ~Includes(rooms[c], r))

\* a user that a fan-out skipped has been unregistered, and the fan-out
\* reached the member whose transport was open
C13_Witness ==
    \E i \in 1..Len(bcast) : \E c \in SkippedBy(bcast[i].op) :
        /\ c \notin users
        /\ rooms[c] = <<>>
        /\ SentFor(c, bcast[i].op) = {}
        /\ bcast[i].targets # {}

\* a connection attempt whose credential did not verify
Rejected(c) == userId[c] = NoUser /\ readyState[c] = "CLOSED"

Listed(d, r) == d \in users /\ Includes(rooms[d], r)

\* C15: the handling of a message that does not parse or has no known type
\* leaves the store, every membership and what every other connection has
\* been sent unchanged, sends the sender at most one error notice, and
\* leaves the sender's transport open.
C15_MalformedDropped ==
    [][\A m \in dropped' \ dropped :
          /\ store' = store
          /\ \A d \in Conns, r \in Rooms : Listed(d, r)' <=> Listed(d, r)
          /\ \A d \in Conns \ {m.ws} : recv'[d] = recv[d]
          /\ \/ recv'[m.ws] = recv[m.ws]
             \/ /\ Len(recv'[m.ws]) = Len(recv[m.ws]) + 1
                /\ SubSeq(recv'[m.ws], 1, Len(recv[m.ws])) = recv[m.ws]
                /\ recv'[m.ws][Len(recv'[m.ws])].type = "error"
          /\ readyState'[m.ws] = "OPEN"]_vars

\* C16: a step in which a connection that stays registered gains or loses a
\* room (the handling of its join_room or leave_room) writes nothing to the
\* store, sends nothing to any connection, and changes no other connection's
\* rooms and no other room of the sender.
C16_JoinLeaveFrame ==
    [][\A c \in Conns :
          (c \in users /\ c \in users' /\ rooms'[c] # rooms[c]) =>
              /\ UNCHANGED <<store, recv, pending, users, readyState>>
              /\ \A d \in Conns \ {c} : rooms'[d] = rooms[d]
              /\ \E r \in Rooms :
                    \A x \in Rooms \ {r} :
                        Includes(rooms'[c], x) <=> Includes(rooms[c], x)]_vars

\* a connection joined, joined again and left, so that it is in no room,
\* and nothing was stored or sent meanwhile
C16_Witness ==
    \E c \in rejoined :
        /\ c \in users
        /\ rooms[c] = <<>>
        /\ store = InitialTable
        /\ nOps = 0
        /\ \A d \in Conns : recv[d] = <<>>

\* C17: leave of room R on the rooms of any registered connection yields a
\* list without R, and the same list when R was not in it; and a connection
\* is sent a message for R only while R is in its list, hence none after it
\* left R.
C17_LeaveRoom ==
    /\ [](\A c \in users, r \in Rooms :
            /\ ~Includes(leave(rooms[c], r), r)
            /\ ~Includes(rooms[c], r) => leave(rooms[c], r) = rooms[c])
    /\ [][\A c \in Conns :
            recv'[c] # recv[c] =>
                Includes(rooms[c], recv'[c][Len(recv'[c])].roomId)]_vars

\* a connection was sent one message of the room as a member, and is still
\* registered with an open transport, but was no longer listed when the next
\* message of the room was fanned out, and was not sent it
C17_Witness ==
    \E i, j \in 1..Len(bcast) : \E c \in users :
        /\ i < j
        /\ bcast[i].roomId = bcast[j].roomId
        /\ c \in bcast[i].targets
        /\ SentFor(c, bcast[i].op) # {}
        /\ readyState[c] = "OPEN"
        /\ c \notin bcast[j].targets
        /\ bcast[j].targets # {}
        /\ SentFor(c, bcast[j].op) = {}

\* C18: join and leave of room A, on the rooms of any registered connection,
\* keep every other room B listed or unlisted as it was; and in any step a
\* connection that stays registered is listed for B afterwards exactly if it
\* was before, unless the step handles its own join or leave of B.
C18_RoomsIndependent ==
    /\ [](\A c \in users, a \in Rooms : \A b \in Rooms \ {a} :
            /\ Includes(join(rooms[c], a), b) <=> Includes(rooms[c], b)
            /\ Includes(leave(rooms[c], a), b) <=> Includes(rooms[c], b))
    /\ [][\A c \in Conns, b \in Rooms :
            (c \in users /\ c \in users' /\ (b \in joined'[c] <=> b \in joined[c]))
            => (Includes(rooms'[c], b) <=> Includes(rooms[c], b))]_vars

\* a connection is listed for both rooms at once and was sent a message of
\* one of them, while the other connection is listed for that room only
C18_Witness ==
    \E c, d \in users :
        /\ c # d
        /\ Range(rooms[c]) = Rooms
        /\ Range(rooms[d]) = Addressed
        /\ \E i \in 1..Len(bcast) :
              /\ bcast[i].targets = {c, d}
              /\ SentFor(c, bcast[i].op) # {}

C20_NoCrossPropagation ==
    [][\A c \in Conns :
          (\/ \E m \in dropped' \ dropped : m.ws = c
           \/ /\ dropped' = dropped
              /\ readyState[c] = "OPEN" /\ readyState'[c] = "CLOSED")
          => \A d \in Conns \ {c} :
                /\ recv'[d] = recv[d]
                /\ readyState'[d] = readyState[d]
                /\ d \in users' <=> d \in users
                /\ rooms'[d] = rooms[d]]_vars

\* C21: a draw, delete or clear message that the relay accepted and that is
\* no longer pending has ended in a fan-out to the room, or in an
\* operation-failed notice sent to its sender.
C21_Completes ==
    \A op \in 1..nOps :
        \/ \E p \in pending : p.op = op
        \/ \E m \in dropped : m.op = op
        \/ \E i \in 1..Len(bcast) : bcast[i].op = op
        \/ \E f \in failed :
              /\ f.op = op
              /\ \E k \in SentFor(f.ws, op) :
                    recv[f.ws][k].type \notin {"chat", "delete_shape", "clear_canvas"}

\* C22: the row written by a draw carries the room of the message and, as
\* author, the identity that the connect-time credential of the sending
\* connection resolved to; the identity of a connection is set in the step
\* that takes it out of CONNECTING and in no later step.
C22_RecordIdentity ==
    /\ [][\A p \in pending :
            (Executes(p) /\ p.type = "chat") =>
                /\ Len(store') = Len(store) + 1
                /\ store'[Len(store')].roomId = Number(p.roomId)
                /\ store'[Len(store')].message = p.message
                /\ store'[Len(store')].userId = verifyToken(Credential[p.ws])
                /\ store'[Len(store')].userId = userId[p.ws]
                /\ store'[Len(store')].userId # NoUser]_vars
    /\ [][\A c \in Conns :
            userId'[c] # userId[c] =>
                /\ readyState[c] = "CONNECTING"
                /\ readyState'[c] # "CONNECTING"]_vars

\* both connections drew in room 1 after they had connected, and each row
\* is there under its own author
C22_Witness ==
    /\ \E k \in 1..Len(NewRows) :
          NewRows[k].userId = "user_A" /\ EmbeddedId(NewRows[k]) = ShapeIdOf("c1")
    /\ \E k \in 1..Len(NewRows) :
          NewRows[k].userId = "user_B" /\ EmbeddedId(NewRows[k]) = ShapeIdOf("c2")

\* C23: the store changes only in the step that executes the statement of a
\* draw, delete or clear callback; a draw's statement adds exactly one row
\* after the rows that were there and leaves those as they were; a connect,
\* join, leave, transport close, teardown or unhandled message leaves the
\* store unchanged.
C23_AppendOnly ==
    /\ [][store' # store =>
            \E p \in pending :
                Executes(p) /\ p.type \in {"chat", "delete_shape", "clear_canvas"}]_vars
    /\ [][\A p \in pending :
            (Executes(p) /\ p.type = "chat") =>
                /\ Len(store') = Len(store) + 1
                /\ SubSeq(store', 1, Len(store)) = store]_vars
    /\ [][(\/ users' # users
           \/ rooms' # rooms
           \/ readyState' # readyState
           \/ dropped' # dropped) => store' = store]_vars

\* a draw was stored after the rows that were there; afterwards a member
\* left, the sender's unparsable message was dropped, and the sender
\* disconnected and was unregistered
C23_Witness ==
    /\ Len(store) = Len(InitialTable) + 1
    /\ SubSeq(store, 1, Len(InitialTable)) = InitialTable
    /\ \E m \in dropped : m.kind = "unparsable"
    /\ \E c, d \in Conns :
          /\ c # d
          /\ userId[c] # NoUser /\ readyState[c] = "CLOSED" /\ c \notin users
          /\ bcast # <<>> /\ bcast[1].ws = c /\ bcast[1].targets = {c, d}
          /\ CanSend(d) /\ joined[d] = {} /\ rooms[d] = <<>>

\* C24: draws of one room whose callbacks are in flight together are all
\* kept: every stored draw has its own row, holding its payload under its
\* sender's identity, and once a member has handled what it was sent its
\* local list holds the shape of every draw that was fanned out to it.
C24_BothPreserved ==
    /\ Len(NewRows) = Len(applyOrder)
    /\ \A i \in 1..Len(bcast) :
          /\ NewRows[Pos(applyOrder, bcast[i].op)].message = bcast[i].message
          /\ NewRows[Pos(applyOrder, bcast[i].op)].userId = userId[bcast[i].ws]
    /\ \A c \in Conns :
          applied[c] = Len(recv[c]) =>
              /\ \A i \in 1..Len(bcast) :
                    c \in bcast[i].targets =>
                        \E k \in 1..Len(existingShapes[c]) :
                            existingShapes[c][k] = ParseShape(bcast[i].message)
              /\ Len(existingShapes[c]) >=
                    Cardinality({i \in 1..Len(bcast) : c \in bcast[i].targets})

\* the two connections drew in the same room with both callbacks in flight
\* (the stores happened in one order, the fan-outs in the other), and both
\* members have handled both messages
C24_Witness ==
    /\ pending = {}
    /\ Len(bcast) = 2
    /\ bcast[1].ws # bcast[2].ws
    /\ bcast[1].targets = Conns /\ bcast[2].targets = Conns
    /\ Pos(applyOrder, bcast[1].op) = 2
    /\ \A c \in Conns : applied[c] = Len(recv[c]) /\ applied[c] = 2

\* C25: the identifiers of the shapes that the clients generated are pairwise
\* distinct, across clients and within one client.
C25_DistinctIds ==
    \A c, d \in Conns :
        \A k \in 1..Len(existingShapes[c]) : \A l \in 1..Len(existingShapes[d]) :
            (c # d \/ k # l) => existingShapes[c][k].id # existingShapes[d][l].id

\* C26: the step in which a callback fans out its message sends it, once, to
\* exactly the connections that are registered with the room in their list
\* and an open transport in the state in which the step starts, and the
\* registry, the room lists and the transports are the same when it ends:
\* a join, leave or disconnect is either before the whole fan-out or after it.
C26_Snapshot ==
    [][\A p \in pending :
          (p.phase = "resolved" /\ p \notin pending' /\ Len(bcast') = Len(bcast) + 1)
          => /\ {c \in Conns : recv'[c] # recv[c]} =
                   {c \in Conns : Listed(c, p.roomId) /\ readyState[c] = "OPEN"}
             /\ \A c \in Conns :
                   recv'[c] # recv[c] => recv'[c] = Append(recv[c], Outgoing(p))
             /\ UNCHANGED <<users, rooms, readyState>>]_vars

\* the sender of a draw left the room while its callback was suspended: the
\* fan-out went to the other member and not to the sender, who has joined
\* again since
C26_Witness ==
    \E i \in 1..Len(bcast) : \E d \in Conns :
        /\ d # bcast[i].ws
        /\ bcast[i].targets = {d}
        /\ SentFor(d, bcast[i].op) # {}
        /\ SentFor(bcast[i].ws, bcast[i].op) = {}
        /\ CanSend(bcast[i].ws)
        /\ Listed(bcast[i].ws, bcast[i].roomId)

\* C27: a room membership of a connection changes only in a step that
\* handles a join_room or leave_room message of that connection, or in its
\* own teardown: the one that follows the close of its transport, or the one
\* that a message of its own brings about by ending the process.
C27_OwnMembership ==
    [][\A c \in Conns, r \in Rooms :
          (Listed(c, r) # (c \in users' /\ Includes(rooms'[c], r)))
          => \/ /\ CanSend(c)
                /\ users' = users
                /\ \A d \in Conns \ {c} : rooms'[d] = rooms[d]
                /\ UNCHANGED <<readyState, nOps, pending>>
             \/ /\ readyState[c] = "CLOSED"
                /\ c \in users /\ c \notin users'
                /\ UNCHANGED <<readyState, nOps, pending>>
             \/ /\ \E m \in dropped' \ dropped : m.ws = c
                /\ readyState'[c] = "CLOSED"]_vars

C30_AllRegistered ==
    [][canvas'.listeners # canvas.listeners =>
          \A l \in {<<"wheel", "wheelHandler">>,
                     <<"touchstart", "touchStartHandler">>,
                     <<"touchmove", "touchMoveHandler">>,
                     <<"touchend", "touchEndHandler">>} :
              Cardinality({i \in 1..Len(canvas'.listeners) :
                              canvas'.listeners[i] = l}) = 1]_vars

\* the distance of the two fingers that are down
Spread(touches) == Distance(touches[1], touches[2])

\* C31: the scale is never below 0.1 nor above 5, and a touchmove with two
\* fingers down that finds a last finger distance above zero sets the scale
\* to the scale before it times the distance of the fingers after the move
\* over that last distance, brought into that range.
C31_ScaleClamped ==
    /\ [](~RatLess(canvas.scale, MinScale) /\ ~RatLess(MaxScale, canvas.scale))
    /\ [][(/\ Len(canvas.touches) = 2 /\ Len(canvas'.touches) = 2
           /\ canvas'.touches # canvas.touches
           /\ canvas.lastTouchDistance > 0)
          => canvas'.scale =
                RatMax(MinScale,
                       RatMin(MaxScale,
                              RatMul(canvas.scale,
                                     Rat(Spread(canvas'.touches),
                                         canvas.lastTouchDistance))))]_vars

\* two fingers came down and one moved away so far that the product is
\* above 5: the scale is 5
C31_Witness ==
    /\ canvas.events = 2
    /\ Len(canvas.touches) = 2
    /\ canvas.lastTouchDistance = 100
    /\ canvas.scale = MaxScale

\* the view: what the canvas is drawn with
View(cv) == <<cv.scale, cv.offsetX, cv.offsetY>>

\* C32: the scale and the offsets change only in a touchmove with two
\* fingers down that finds a last finger distance above zero; every touchend
\* leaves the last finger distance at 0; so with two fingers down the last
\* finger distance is 0 or the distance of those two fingers, never one
\* that an earlier pair of fingers left.
C32_ViewFrame ==
    /\ [][View(canvas') # View(canvas) =>
            /\ Len(canvas.touches) = 2 /\ Len(canvas'.touches) = 2
            /\ canvas'.touches # canvas.touches
            /\ canvas.lastTouchDistance > 0]_vars
    /\ [][Len(canvas'.touches) < Len(canvas.touches) =>
            canvas'.lastTouchDistance = 0]_vars
    /\ [](Len(canvas.touches) = 2 =>
            canvas.lastTouchDistance \in {0, Spread(canvas.touches)})

\* a pinch rescaled the view, a third finger came down, and one of the three
\* was lifted: two fingers are down apart from each other, and the last
\* finger distance is 0
C32_Witness ==
    /\ canvas.scale # RatOf(1)
    /\ canvas.events = 4
    /\ Len(canvas.touches) = 2
    /\ Spread(canvas.touches) > 0
    /\ canvas.lastTouchDistance = 0

\* the last call made to the mouse handlers
LastMouse(cv) == cv.mouse[Len(cv.mouse)]

\* C33: a finger that comes down alone calls mouseDownHandler at its
\* position, a move of a single finger calls mouseMoveHandler at the
\* position it moved to, and lifting the single finger of such a gesture
\* calls mouseUpHandler at the position the finger had when it was lifted.
C33_MouseAtFinger ==
    [][/\ (Len(canvas.touches) = 0 /\ Len(canvas'.touches) = 1) =>
            /\ Len(canvas'.mouse) = Len(canvas.mouse) + 1
            /\ LastMouse(canvas') =
                   MouseCall("mouseDownHandler", canvas'.touches[1])
       /\ (/\ Len(canvas.touches) = 1 /\ Len(canvas'.touches) = 1
           /\ canvas'.touches # canvas.touches) =>
            /\ Len(canvas'.mouse) = Len(canvas.mouse) + 1
            /\ LastMouse(canvas') =
                   MouseCall("mouseMoveHandler", canvas'.touches[1])
       /\ (/\ Len(canvas.touches) = 1 /\ Len(canvas'.touches) = 0
           /\ canvas.mouse # <<>>
           /\ LastMouse(canvas) \in
                  {MouseCall("mouseDownHandler", canvas.touches[1]),
                   MouseCall("mouseMoveHandler", canvas.touches[1])}) =>
            /\ Len(canvas'.mouse) = Len(canvas.mouse) + 1
            /\ LastMouse(canvas') =
                   MouseCall("mouseUpHandler", canvas.touches[1])]_vars

\* the calls of mouseDownHandler and mouseUpHandler, in the order made
Buttons(cv) == SelectSeq(cv.mouse, LAMBDA m : m.handler # "mouseMoveHandler")

\* C34: the calls of mouseDownHandler and mouseUpHandler alternate, starting
\* with a mouse down: every mouse up follows a mouse down with no other
\* mouse up in between, and once no finger is down every mouse down has had
\* its mouse up, also when the gesture started with two fingers or became
\* a pinch.
C34_DownUpPaired ==
    /\ \A i \in 1..Len(Buttons(canvas)) :
          Buttons(canvas)[i].handler =
              IF i % 2 = 1 THEN "mouseDownHandler" ELSE "mouseUpHandler"
    /\ Len(canvas.touches) = 0 => Len(Buttons(canvas)) % 2 = 0

\* the effect's condition: room info and user present, not joining
CanAutoJoin(pg) == pg.roomInfo # "null" /\ pg.user # "null" /\ ~pg.joining

\* C35: a mounted page with room info and a user that is not joining has
\* its timer pending, and joining becomes true without the join button
\* unless the page unmounts or loses the room info or the user first; the
\* timer's callback runs at most once, never after the cleanup of the run
\* of the effect that set it, and it is what set joining.
C35_AutoJoin ==
    /\ [](page.mounted /\ CanAutoJoin(page) => page.timers = {page.timer})
    /\ [](~(page.mounted /\ CanAutoJoin(page)) => page.timers = {})
    /\ (page.mounted /\ CanAutoJoin(page)) ~>
           (page.joining \/ ~page.mounted \/ ~CanAutoJoin(page))
    /\ [](/\ Len(page.fired) <= 1
          /\ \A i \in 1..Len(page.fired) :
                ~page.fired[i].cleaned /\ ~page.fired[i].joining)

\* the user changed while the timer was pending, and the timer set after
\* that change fired and set joining
C35_Witness ==
    /\ page.mounted
    /\ page.joining
    /\ Len(page.fired) = 1
    /\ page.fired[1].timer = 2
    /\ page.user = "user_B"

\* C36: when a connection that joined room R more than once leaves R, R is
\* no longer in its list after that one leave; while it has not joined R
\* again R stays out of its list, and it is sent no message for R.
C36_OneLeaveUndoesJoins ==
    /\ [][\A c \in rejoined, r \in Addressed :
            (r \in joined[c] /\ r \notin joined'[c]) =>
                ~Includes(rooms'[c], r)]_vars
    /\ [](\A c \in rejoined, r \in Addressed :
            r \notin joined[c] => ~Includes(rooms[c], r))
    /\ [][\A c \in rejoined :
            recv'[c] # recv[c] =>
                recv'[c][Len(recv'[c])].roomId \in joined[c]]_vars

\* a connection that joined the room twice was sent a message of the room,
\* left it, and was not sent the next message of the room although its
\* transport is open
C36_Witness ==
    \E i, j \in 1..Len(bcast) : \E c \in rejoined \cap users :
        /\ i < j
        /\ bcast[i].roomId \in Addressed
        /\ bcast[j].roomId = bcast[i].roomId
        /\ SentFor(c, bcast[i].op) # {}
        /\ joined[c] = {}
        /\ rooms[c] = <<>>
        /\ readyState[c] = "OPEN"
        /\ bcast[j].targets # {}
        /\ SentFor(c, bcast[j].op) = {}

\* the step in which callback p resumes and fans its message out
FansOut(p) ==
    /\ p \in pending
    /\ p.phase = "resolved"
    /\ Len(bcast') = Len(bcast) + 1
    /\ bcast'[Len(bcast')].op = p.op

\* C37: for a message whose sender is not in the room it names, the store
\* executes the statement all the same (a chat appends its row for that
\* room under the sender's identity, a delete leaves no row of the room
\* with that shape, a clear leaves no row of the room), and the fan-out
\* sends the payload to every member of the room with an open transport
\* and nothing to the sender.
C37_NoMembershipCheck ==
    [][\A p \in pending :
          ~Includes(rooms[p.ws], p.roomId) =>
              /\ (Executes(p) /\ p.type = "chat") =>
                    store' = Append(store, [roomId |-> Number(p.roomId),
                                            message |-> p.message,
                                            userId |-> p.userId])
              /\ (Executes(p) /\ p.type = "delete_shape") =>
                    \A k \in 1..Len(store') :
                        InRoom(store'[k], p.roomId) =>
                            EmbeddedId(store'[k]) # p.shapeId
              /\ (Executes(p) /\ p.type = "clear_canvas") =>
                    \A k \in 1..Len(store') : ~InRoom(store'[k], p.roomId)
              /\ FansOut(p) =>
                    /\ recv'[p.ws] = recv[p.ws]
                    /\ \A c \in users :
                          (Includes(rooms[c], p.roomId) /\ readyState[c] = "OPEN")
                              => recv'[c] = Append(recv[c], Outgoing(p))]_vars

\* a connection that is in no room and was sent nothing sent a chat for a
\* room: its row is the last of the table, and the member of the room was
\* sent the payload
C37_Witness ==
    \E i \in 1..Len(bcast) : \E c \in users :
        /\ bcast[i].type = "chat"
        /\ bcast[i].ws = c
        /\ rooms[c] = <<>>
        /\ readyState[c] = "OPEN"
        /\ recv[c] = <<>>
        /\ bcast[i].targets # {}
        /\ \A d \in bcast[i].targets : SentFor(d, bcast[i].op) # {}
        /\ Len(store) = Len(InitialTable) + 1
        /\ store[Len(store)] = [roomId |-> Number(bcast[i].roomId),
                                message |-> bcast[i].message,
                                userId |-> userId[c]]

\* how often a list holds a shape with the identifier
Occurrences(list, id) == Cardinality({k \in 1..Len(list) : list[k].id = id})

\* how many shapes with the identifier were drawn: the chat messages sent
\* for them are suspended at the store or were fanned out
Drawn(id) ==
    Cardinality({p \in pending :
                    p.type = "chat" /\ ParseShape(p.message).id = id})
    + Cardinality({i \in 1..Len(bcast) :
                    bcast[i].type = "chat" /\ ParseShape(bcast[i].message).id = id})

\* C38: the local shape list of a client holds a shape identifier no more
\* often than shapes with that identifier were drawn, so a shape drawn once
\* is held at most once, also by the client that drew it and was sent it
\* back by the fan-out.
C38_HeldOnce ==
    \A c \in Conns : \A id \in ShapeIds :
        Occurrences(existingShapes[c], id) <= Drawn(id)

\* the identifiers of the shapes in a list, and of the rows of a room
HeldIds(list) == {list[k].id : k \in 1..Len(list)}
StoredIds(r) == {EmbeddedId(store[k]) : k \in {j \in 1..Len(store) : InRoom(store[j], r)}}

\* C39: a client that loaded the history of a room and then joined it holds,
\* once every message sent has been stored, fanned out and handled, the
\* shapes that the store holds for the room: none that was stored between
\* its load and its join is missing.
C39_LoadThenJoin ==
    (/\ pending = {}
     /\ \A d \in Conns : applied[d] = Len(recv[d]))
    => \A c \in loaded \cap users : \A r \in Addressed :
          (r \in joined[c] /\ readyState[c] = "OPEN") =>
              HeldIds(existingShapes[c]) = StoredIds(r)

\* the membership set of a room: the connections whose list holds it
MembersOf(r) == {c \in Conns : Includes(rooms[c], r)}

\* C40: every connection in the membership set of a room is in the registry:
\* no room lists a connection that never registered or was unregistered,
\* and the users a fan-out finds for the room are exactly its membership set.
C40_MembersRegistered ==
    \A r \in Rooms :
        /\ MembersOf(r) \subseteq users
        /\ usersInRoom(r) = MembersOf(r)

\* a connection that was sent a message as a member of a room was torn
\* down and is in no membership set, while a registered connection still
\* is in one
C40_Witness ==
    \E c, d \in Conns :
        /\ c \notin users
        /\ userId[c] # NoUser
        /\ recv[c] # <<>>
        /\ rooms[c] = <<>>
        /\ d \in users
        /\ rooms[d] # <<>>

=============================================================================
